---- MODULE Spec2Model ----
(***************************************************************************)
(* Model of vigra::gradientEnergyTensor                                    *)
(* (src/include/vigra/gradient_energy_tensor.hxx).                         *)
(*                                                                         *)
(* Numbers.  TmpType is a real type; the model uses integer samples and    *)
(* integer kernel taps, on which every convolution and sum is exact.  The  *)
(* only non-integer constant of the code is the 0.5 of band 1, so the      *)
(* destination components are kept in units of 1/2: a stored value v       *)
(* stands for the real number v/2.                                         *)
(*                                                                         *)
(* Images are records [w, h, px] with px the row-major pixel sequence      *)
(* (flat index y*w + x, stored at position y*w + x + 1), as BasicImage     *)
(* lays its pixels out for begin()/++.                                     *)
(***************************************************************************)
EXTENDS Integers, Sequences, FiniteSets, TLC

\* ------------------------------------------------------------------ bounds
MaxW == 3
MaxH == 3
MaxVal == 1
MaxBands == 4
DestPad == 1

\* ------------------------------------------------------------- containers
BasicImage(w, h) == [w |-> w, h |-> h, px |-> [i \in 1..(w * h) |-> 0]]

NoImage == [w |-> 0, h |-> 0, px |-> <<>>]

At(img, x, y) == img.px[y * img.w + x + 1]

\* ---------------------------------------------------------------- kernels
\* A Kernel1D: taps k[left] .. k[left + Len(taps) - 1] and a border treatment.
Kernel(left, taps, border) == [left |-> left, taps |-> taps, border |-> border]

KRight(k) == k.left + Len(k.taps) - 1

Tap(k, i) == k.taps[i - k.left + 1]

\* Index of the sample used in place of position i of a line of n samples.
BorderIndex(i, n, border) ==
    IF i >= 0 /\ i < n THEN i
    ELSE IF border = "REFLECT" THEN (IF i < 0 THEN 0 - i ELSE 2 * (n - 1) - i)
    ELSE (IF i < 0 THEN 0 ELSE n - 1)

RECURSIVE TapSum(_, _, _, _, _)
\* sum over i in left..right of k[i] * line(x - i), line given as Get(position)
TapSum(k, i, n, x, line) ==
    IF i > KRight(k) THEN 0
    ELSE Tap(k, i) * line[BorderIndex(x - i, n, k.border) + 1]
         + TapSum(k, i + 1, n, x, line)

convolveLine(line, k) ==
    [p \in 1..Len(line) |-> TapSum(k, k.left, Len(line), p - 1, line)]

separableConvolveX(img, k) ==
    [img EXCEPT !.px =
        [i \in 1..(img.w * img.h) |->
            LET x == (i - 1) % img.w
                y == (i - 1) \div img.w
                row == [q \in 1..img.w |-> At(img, q - 1, y)]
            IN  convolveLine(row, k)[x + 1]]]

separableConvolveY(img, k) ==
    [img EXCEPT !.px =
        [i \in 1..(img.w * img.h) |->
            LET x == (i - 1) % img.w
                y == (i - 1) \div img.w
                col == [q \in 1..img.h |-> At(img, x, q - 1)]
            IN  convolveLine(col, k)[y + 1]]]

\* kernel longer than line
ConvFails(img, kx, ky) == img.w < Len(kx.taps) \/ img.h < Len(ky.taps)

convolveImage(img, kx, ky) == separableConvolveY(separableConvolveX(img, kx), ky)

combineTwoImages(a, b) ==
    [a EXCEPT !.px = [i \in 1..(a.w * a.h) |-> a.px[i] + b.px[i]]]

\* The result of a primitive lands in an existing destination image through
\* its upper-left iterator.
StoreInto(dst, res) ==
    [dst EXCEPT !.px =
        [i \in 1..Len(dst.px) |->
            LET x == (i - 1) % dst.w
                y == (i - 1) \div dst.w
            IN  IF x < res.w /\ y < res.h THEN At(res, x, y) ELSE dst.px[i]]]


\* ------------------------------------------------------- the cascade plan
Steps == {"gx", "gy", "gxx", "gxy", "gyy", "laplace", "gx3", "gy3"}

\* Fault variant: gxx is issued before the gx it reads
Order_GxxFirst == <<"gxx", "gx", "gy", "gxy", "gyy", "laplace", "gx3", "gy3">>

\* The order in which the function body issues the eight calls.
Order == <<"gx", "gy", "gxx", "gxy", "gyy", "laplace", "gx3", "gy3">>

\* The image a convolution step reads ("src" is the caller's input range).
SrcOf(s) ==
    CASE s = "gx"  -> "src"
      [] s = "gy"  -> "src"
      [] s = "gxx" -> "gx"
      [] s = "gxy" -> "gx"
      [] s = "gyy" -> "gy"
      [] s = "gx3" -> "laplace"
      [] s = "gy3" -> "laplace"
      [] OTHER     -> "gxx"

\* Fault variant: gxy passes (derivKernel, smoothKernel) like the call before it
KernelX_CopyPaste(s, derivK, smoothK) ==
    IF s \in {"gx", "gxx", "gxy", "gx3"} THEN derivK ELSE smoothK

\* Fault variant: the first call smooths along x instead of differentiating
KernelX_SmoothFirst(s, derivK, smoothK) ==
    IF s \in {"gxx", "gx3"} THEN derivK ELSE smoothK

\* The kernel a step passes for the x axis and for the y axis.
KernelX(s, derivK, smoothK) ==
    IF s \in {"gx", "gxx", "gx3"} THEN derivK ELSE smoothK

KernelY(s, derivK, smoothK) ==
    IF s \in {"gx", "gxx", "gx3"} THEN smoothK ELSE derivK

\* Fault variant: the task graph lacks the edge from gx to gxx
Reads_MissingEdge(s) ==
    IF s = "laplace" THEN {"gxx", "gyy"}
    ELSE IF s \in {"gx", "gy", "gxx"} THEN {}
    ELSE {SrcOf(s)}

\* The intermediate images a step reads.
Reads(s) ==
    IF s = "laplace" THEN {"gxx", "gyy"}
    ELSE IF SrcOf(s) = "src" THEN {}
    ELSE {SrcOf(s)}

SourceImage(s, t, in) == IF SrcOf(s) = "src" THEN in ELSE t[SrcOf(s)]

StepFails(s, t, in, derivK, smoothK) ==
    s # "laplace" /\ ConvFails(SourceImage(s, t, in),
                               KernelX(s, derivK, smoothK),
                               KernelY(s, derivK, smoothK))

StepResult(s, t, in, derivK, smoothK) ==
    IF s = "laplace" THEN combineTwoImages(t.gxx, t.gyy)
    ELSE convolveImage(SourceImage(s, t, in),
                       KernelX(s, derivK, smoothK),
                       KernelY(s, derivK, smoothK))

\* ------------------------------------------------------------ the assembly
\* Fault variant: the precondition accepts more than three bands
PreconditionHolds_AtLeast(b) == b >= 3

PreconditionHolds(b) == b = 3

\* Fault variant: the temporaries are constructed h wide and w high
AllocTmp_Transposed(w, h) ==
    [gx |-> BasicImage(h, w), gy |-> BasicImage(h, w),
     gxx |-> BasicImage(h, w), gxy |-> BasicImage(h, w), gyy |-> BasicImage(h, w),
     laplace |-> BasicImage(h, w), gx3 |-> BasicImage(h, w), gy3 |-> BasicImage(h, w)]

AllocTmp(w, h) ==
    [gx |-> BasicImage(w, h), gy |-> BasicImage(w, h),
     gxx |-> BasicImage(w, h), gxy |-> BasicImage(w, h), gyy |-> BasicImage(w, h),
     laplace |-> BasicImage(w, h), gx3 |-> BasicImage(w, h), gy3 |-> BasicImage(w, h)]

BeginIters ==
    [gxi |-> 0, gyi |-> 0, gxxi |-> 0, gxyi |-> 0, gyyi |-> 0,
     gx3i |-> 0, gy3i |-> 0]

\* Fault variant: the increment list of the inner loop lacks ++gy3i
AdvanceIters_SkipGy3(it) ==
    [gxi |-> it.gxi + 1, gyi |-> it.gyi + 1, gxxi |-> it.gxxi + 1,
     gxyi |-> it.gxyi + 1, gyyi |-> it.gyyi + 1, gx3i |-> it.gx3i + 1,
     gy3i |-> it.gy3i]

AdvanceIters(it) == [k \in DOMAIN it |-> it[k] + 1]

\* The seven values the iterators point at.
Deref(t, it) ==
    [gx  |-> t.gx.px[it.gxi + 1],   gy  |-> t.gy.px[it.gyi + 1],
     gxx |-> t.gxx.px[it.gxxi + 1], gxy |-> t.gxy.px[it.gxyi + 1],
     gyy |-> t.gyy.px[it.gyyi + 1],
     gx3 |-> t.gx3.px[it.gx3i + 1], gy3 |-> t.gy3.px[it.gy3i + 1]]

sq(v) == v * v

\* The three components, in units of 1/2.
Band0(v) == 2 * (sq(v.gxx) + sq(v.gxy) - v.gx * v.gx3)

\* Fault variant: 0.5 + (...) written for 0.5 * (...)
Band1_PlusHalf(v) ==
    2 * (0 - v.gxy * (v.gxx + v.gyy)) + 1 + 2 * (v.gx * v.gy3 + v.gy * v.gx3)

Band1(v) == 2 * (0 - v.gxy * (v.gxx + v.gyy)) + (v.gx * v.gy3 + v.gy * v.gx3)

Band2(v) == 2 * (sq(v.gxy) + sq(v.gyy) - v.gy * v.gy3)

\* the loop conditions
OuterCond(yy, hh) == yy < hh

\* Fault variant: the inner loop runs one column too far
InnerCond_OffByOne(xx, ww) == xx <= ww

InnerCond(xx, ww) == xx < ww

\* Fault variant: the failure is swallowed and the assembly loop runs
FailurePc_Swallowed == "outer"

\* where control goes when a primitive of the cascade throws
FailurePc == "failed"

\* dest.setComponent(value, d, band) at destination pixel (dx, dy)
setComponent(img, value, dx, dy, band) ==
    [img EXCEPT !.px[dy * img.w + dx + 1][band + 1] = value]


\* ------------------------------------------------------------------ inputs
\* Input images: the constant images c, and the skew ramps a*(x + 2*y) with
\* one pixel raised by v.
ConstantImage(W, H, c) == [w |-> W, h |-> H, px |-> [i \in 1..(W * H) |-> c]]

RampImage(W, H, a, p, v) ==
    [w |-> W, h |-> H,
     px |-> [i \in 1..(W * H) |->
                a * (((i - 1) % W) + 2 * ((i - 1) \div W))
                  + (IF i = p THEN v ELSE 0)]]

Images ==
    UNION { { ConstantImage(W, H, c) : c \in 0..MaxVal }
            \cup { RampImage(W, H, a, p, v) :
                     a \in 0..MaxVal, p \in 1..(W * H), v \in 0..MaxVal } :
            W \in 1..MaxW, H \in 1..MaxH }

DerivCentral == Kernel(-1, <<1, 0, -1>>, "REFLECT")

SmoothBinomial == Kernel(-1, <<1, 2, 1>>, "REFLECT")

DerivForward == Kernel(-1, <<1, -1>>, "REPEAT")

SmoothPair == Kernel(0, <<2, 1>>, "REPEAT")

SkewThree == Kernel(-1, <<1, 1, -1>>, "REFLECT")

\* <<derivKernel, smoothKernel>> as the caller passes them
KernelPairs ==
    { <<DerivCentral, SmoothBinomial>>,
      <<DerivForward, SmoothPair>>,
      <<SkewThree, SmoothPair>> }

\* The destination: a multi-band image at least as large as the source,
\* with dupperleft at its pixel (0, 0).
DestImage(W, H, b) ==
    [w |-> W + DestPad, h |-> H + DestPad,
     px |-> [i \in 1..((W + DestPad) * (H + DestPad)) |-> [c \in 1..b |-> -1]]]

NoWrites(W, H, b) ==
    [i \in 1..((W + DestPad) * (H + DestPad)) |-> [c \in 1..b |-> 0]]

\* ------------------------------------------------------------------- state
VARIABLES
    src,          \* the source range [supperleft, slowerright) read through src
    derivKernel, smoothKernel,
    bands,        \* dest.size(dupperleft)
    dest,         \* the destination image
    pc,           \* position in the function body
    w, h,         \* the locals w and h
    tmp,          \* gx, gy, gxx, gxy, gyy, laplace, gx3, gy3
    done,         \* cascade calls that have returned
    x, y,         \* loop counters
    d, dy,        \* row iterator offset, dupperleft.y offset
    iters,        \* gxi .. gy3i as offsets from begin()
    reordered,    \* some cascade call ran out of the order of the function body
    writes        \* number of setComponent calls per destination component

vars == <<src, derivKernel, smoothKernel, bands, dest, pc, w, h, tmp, done,
          x, y, d, dy, iters, reordered, writes>>

args == <<src, derivKernel, smoothKernel, bands>>

loopvars == <<x, y, d, dy, iters>>

Init ==
    /\ src \in Images
    /\ \E kp \in KernelPairs : derivKernel = kp[1] /\ smoothKernel = kp[2]
    /\ bands \in 1..MaxBands
    /\ dest = DestImage(src.w, src.h, bands)
    /\ writes = NoWrites(src.w, src.h, bands)
    /\ pc = "check"
    /\ w = 0 /\ h = 0
    /\ tmp = [s \in Steps |-> NoImage]
    /\ done = {}
    /\ x = 0 /\ y = 0 /\ d = 0 /\ dy = 0
    /\ iters = BeginIters
    /\ reordered = FALSE

\* vigra_precondition(dest.size(dupperleft) == 3, ...)
Check ==
    /\ pc = "check"
    /\ pc' = IF PreconditionHolds(bands) THEN "alloc" ELSE "precondition_failed"
    /\ UNCHANGED <<args, dest, w, h, tmp, done, loopvars, reordered, writes>>

\* int w = ..., h = ...;  TmpImage gx(w, h), ..., gy3(w, h);
Alloc ==
    /\ pc = "alloc"
    /\ w' = src.w
    /\ h' = src.h
    /\ tmp' = AllocTmp(src.w, src.h)
    /\ pc' = "cascade"
    /\ UNCHANGED <<args, dest, done, loopvars, reordered, writes>>

NextInOrder(s) == Cardinality(done) < Len(Order) /\ Order[Cardinality(done) + 1] = s

\* One call of the cascade: convolveImage or combineTwoImages into tmp[s].
\* A failing primitive throws, and nothing in the function catches it.
RunStep(s) ==
    /\ pc = "cascade"
    /\ reordered' = (reordered \/ ~NextInOrder(s))
    /\ IF StepFails(s, tmp, src, derivKernel, smoothKernel)
       THEN /\ pc' = FailurePc
            /\ UNCHANGED <<tmp, done, iters>>
       ELSE /\ tmp' = [tmp EXCEPT ![s] =
                         StoreInto(@, StepResult(s, tmp, src, derivKernel, smoothKernel))]
            /\ done' = done \cup {s}
            /\ IF done' = Steps
               THEN pc' = "outer" /\ iters' = BeginIters
               ELSE pc' = "cascade" /\ UNCHANGED iters
    /\ UNCHANGED <<args, dest, w, h, x, y, d, dy, writes>>

ConvGx == NextInOrder("gx") /\ RunStep("gx")

ConvGy == NextInOrder("gy") /\ RunStep("gy")

ConvGxx == NextInOrder("gxx") /\ RunStep("gxx")

ConvGxy == NextInOrder("gxy") /\ RunStep("gxy")

ConvGyy == NextInOrder("gyy") /\ RunStep("gyy")

CombineLaplace == NextInOrder("laplace") /\ RunStep("laplace")

ConvGx3 == NextInOrder("gx3") /\ RunStep("gx3")

ConvGy3 == NextInOrder("gy3") /\ RunStep("gy3")

\* for(int y = 0; y < h; ...) { d = dupperleft.rowIterator(); for(int x = 0; ...
OuterEnter ==
    /\ pc = "outer"
    /\ OuterCond(y, h)
    /\ d' = 0
    /\ x' = 0
    /\ pc' = "inner"
    /\ UNCHANGED <<args, dest, w, h, tmp, done, y, dy, iters, reordered, writes>>

OuterExit ==
    /\ pc = "outer"
    /\ ~OuterCond(y, h)
    /\ pc' = "done"
    /\ UNCHANGED <<args, dest, w, h, tmp, done, loopvars, reordered, writes>>

Counted(wr, dx, dyy, dw, band) ==
    [wr EXCEPT ![dyy * dw + dx + 1][band + 1] = @ + 1]

\* the body of the inner loop and its increment
InnerStep ==
    /\ pc = "inner"
    /\ InnerCond(x, w)
    /\ LET v == Deref(tmp, iters)
       IN  /\ dest' = setComponent(
                        setComponent(
                          setComponent(dest, Band0(v), d, dy, 0),
                          Band1(v), d, dy, 1),
                        Band2(v), d, dy, 2)
           /\ writes' = Counted(Counted(Counted(writes, d, dy, dest.w, 0),
                                        d, dy, dest.w, 1), d, dy, dest.w, 2)
    /\ x' = x + 1
    /\ d' = d + 1
    /\ iters' = AdvanceIters(iters)
    /\ UNCHANGED <<args, pc, w, h, tmp, done, y, dy, reordered>>

\* the inner loop ends: ++y, ++dupperleft.y
InnerExit ==
    /\ pc = "inner"
    /\ ~InnerCond(x, w)
    /\ y' = y + 1
    /\ dy' = dy + 1
    /\ pc' = "outer"
    /\ UNCHANGED <<args, dest, w, h, tmp, done, x, d, iters, reordered, writes>>

Next ==
    \/ Check
    \/ Alloc
    \/ ConvGx
    \/ ConvGy
    \/ ConvGxx
    \/ ConvGxy
    \/ ConvGyy
    \/ CombineLaplace
    \/ ConvGx3
    \/ ConvGy3
    \/ OuterEnter
    \/ OuterExit
    \/ InnerStep
    \/ InnerExit

Spec == Init /\ [][Next]_vars

\* ------------------------------------------------- the cascade as a task graph
\* The eight calls taken in any order that respects what each one reads.
ParReady(s) == s \notin done /\ Reads(s) \subseteq done

ParGx == ParReady("gx") /\ RunStep("gx")

ParGy == ParReady("gy") /\ RunStep("gy")

ParGxx == ParReady("gxx") /\ RunStep("gxx")

ParGxy == ParReady("gxy") /\ RunStep("gxy")

ParGyy == ParReady("gyy") /\ RunStep("gyy")

ParLaplace == ParReady("laplace") /\ RunStep("laplace")

ParGx3 == ParReady("gx3") /\ RunStep("gx3")

ParGy3 == ParReady("gy3") /\ RunStep("gy3")

NextPar ==
    \/ Check
    \/ Alloc
    \/ ParGx
    \/ ParGy
    \/ ParGxx
    \/ ParGxy
    \/ ParGyy
    \/ ParLaplace
    \/ ParGx3
    \/ ParGy3
    \/ OuterEnter
    \/ OuterExit
    \/ InnerStep
    \/ InnerExit

SpecPar == Init /\ [][NextPar]_vars


\* ================================================================= claims
\* helpers of the statements
InRegion(i) == ((i - 1) % dest.w) < src.w /\ ((i - 1) \div dest.w) < src.h

Untouched ==
    /\ dest = DestImage(src.w, src.h, bands)
    /\ writes = NoWrites(src.w, src.h, bands)

AllZero(img) == \A i \in 1..Len(img.px) : img.px[i] = 0

IsConstant(img) == \A i \in 1..Len(img.px) : img.px[i] = img.px[1]

RECURSIVE TapTotal(_, _)
TapTotal(k, j) == IF j > Len(k.taps) THEN 0 ELSE k.taps[j] + TapTotal(k, j + 1)

Written(i) == \E b \in 1..bands : writes[i][b] > 0

\* C1: a destination whose band count is not 3 makes the call fail with a
\* precondition failure; no destination pixel is written, no temporary is
\* allocated and no convolution or addition is started.
C1_BandCountEnforced ==
    bands # 3 =>
        /\ pc \in {"check", "precondition_failed"}
        /\ Untouched
        /\ done = {}
        /\ tmp = [s \in Steps |-> NoImage]

C1_Witness == bands = 4 /\ pc = "precondition_failed" /\ Len(src.px) > 0

\* C2: every written destination pixel (x, y) holds
\*   band 0 = gxx^2 + gxy^2 - gx*gx3,
\*   band 1 = -gxy*(gxx + gyy) + 0.5*(gx*gy3 + gy*gx3),
\*   band 2 = gxy^2 + gyy^2 - gy*gy3
\* of the seven fields at the same (x, y) (stored in halves), and in the
\* assembly loop all seven flat iterators stand at y*W + x, the row iterator
\* at x and dupperleft.y at y.
C2_PointwiseFormula ==
    /\ pc = "inner" =>
         /\ \A k \in DOMAIN iters : iters[k] = y * src.w + x
         /\ d = x /\ dy = y
    /\ pc = "outer" =>
         /\ \A k \in DOMAIN iters : iters[k] = y * src.w
         /\ dy = y
    /\ pc \in {"inner", "outer", "done"} =>
         \A xx \in 0..(src.w - 1), yy \in 0..(src.h - 1) :
            LET i   == yy * dest.w + xx + 1
                gx  == At(tmp.gx, xx, yy)
                gy  == At(tmp.gy, xx, yy)
                gxx == At(tmp.gxx, xx, yy)
                gxy == At(tmp.gxy, xx, yy)
                gyy == At(tmp.gyy, xx, yy)
                gx3 == At(tmp.gx3, xx, yy)
                gy3 == At(tmp.gy3, xx, yy)
            IN  (pc = "done" \/ Written(i)) =>
                  /\ dest.px[i][1] = 2 * (gxx * gxx + gxy * gxy - gx * gx3)
                  /\ dest.px[i][2] = (gx * gy3 + gy * gx3) - 2 * gxy * (gxx + gyy)
                  /\ dest.px[i][3] = 2 * (gxy * gxy + gyy * gyy - gy * gy3)

C2_Witness ==
    /\ pc = "done"
    /\ src.w = 3 /\ src.h = 2
    /\ dest.px[1][2] # 0
    /\ dest.px[1] # dest.px[2]
    /\ dest.px[1] # dest.px[dest.w + 1]

\* C3: every completed cascade step holds the convolution of its stated
\* source with the stated kernels: D along x and S along y for gx, gxx, gx3;
\* S along x and D along y for gy, gxy, gyy, gy3; laplace = gxx + gyy.
\* (Stated at every position but the body of the inner loop, which leaves
\* the temporaries as they are at its head.)
C3_CascadeKernels ==
    pc # "inner" =>
        /\ "gx" \in done => tmp.gx = convolveImage(src, derivKernel, smoothKernel)
        /\ "gy" \in done => tmp.gy = convolveImage(src, smoothKernel, derivKernel)
        /\ "gxx" \in done => tmp.gxx = convolveImage(tmp.gx, derivKernel, smoothKernel)
        /\ "gxy" \in done => tmp.gxy = convolveImage(tmp.gx, smoothKernel, derivKernel)
        /\ "gyy" \in done => tmp.gyy = convolveImage(tmp.gy, smoothKernel, derivKernel)
        /\ "laplace" \in done =>
              \A i \in 1..(src.w * src.h) :
                 tmp.laplace.px[i] = tmp.gxx.px[i] + tmp.gyy.px[i]
        /\ "gx3" \in done => tmp.gx3 = convolveImage(tmp.laplace, derivKernel, smoothKernel)
        /\ "gy3" \in done => tmp.gy3 = convolveImage(tmp.laplace, smoothKernel, derivKernel)

\* a completed run in which exchanging the kernels or the source would show
C3_Witness ==
    /\ pc = "done"
    /\ done = Steps
    /\ tmp.gxy # convolveImage(tmp.gx, derivKernel, smoothKernel)
    /\ tmp.gyy # convolveImage(tmp.gx, smoothKernel, derivKernel)
    /\ tmp.gx3 # tmp.gy3
    /\ ~AllZero(tmp.gy3)

\* C4: no destination component is ever written twice, nothing outside the
\* W x H region at dupperleft is written or changed, and after a successful
\* call each of the bands 0, 1, 2 of every pixel of the region has been
\* written exactly once.
C4_WrittenExactlyOnce ==
    \A i \in 1..Len(dest.px) :
        /\ \A b \in 1..bands : writes[i][b] <= 1
        /\ ~InRegion(i) =>
              /\ \A b \in 1..bands : writes[i][b] = 0
              /\ dest.px[i] = [c \in 1..bands |-> -1]
        /\ (pc = "done" /\ InRegion(i)) => writes[i] = <<1, 1, 1>>

C4_Witness ==
    /\ pc = "done"
    /\ src.w >= 2 /\ src.h >= 2
    /\ \E i \in 1..Len(dest.px) : ~InRegion(i)
    /\ \A i \in 1..Len(dest.px) : InRegion(i) => dest.px[i] # <<-1, -1, -1>>

\* C5: from their construction on, all eight temporaries are W x H images
\* (W*H pixels), W and H being the extent of the source range, and the
\* pixels populated by a successful call form exactly the W x H rectangle
\* at dupperleft.
C5_DimensionsPreserved ==
    /\ pc \in {"cascade", "failed", "outer", "inner", "done"} =>
         /\ w = src.w /\ h = src.h
         /\ \A s \in Steps :
               /\ tmp[s].w = src.w
               /\ tmp[s].h = src.h
               /\ Len(tmp[s].px) = src.w * src.h
    /\ pc = "done" =>
         { i \in 1..Len(dest.px) : Written(i) }
           = { yy * dest.w + xx + 1 : xx \in 0..(src.w - 1), yy \in 0..(src.h - 1) }

C5_Witness == pc = "done" /\ src.w = 3 /\ src.h = 2 /\ done = Steps

\* C6: for a constant source and a derivative kernel whose taps sum to 0,
\* every computed field is 0 at every pixel, borders included, and every
\* written destination component is 0.
C6_ConstantInput ==
    (IsConstant(src) /\ TapTotal(derivKernel, 1) = 0) =>
        /\ \A s \in done : AllZero(tmp[s])
        /\ \A i \in 1..Len(dest.px) : Written(i) => dest.px[i] = <<0, 0, 0>>

C6_Witness ==
    /\ pc = "done"
    /\ IsConstant(src)
    /\ src.px[1] > 0
    /\ TapTotal(derivKernel, 1) = 0

\* C7: for an all-zero source, whatever the kernels, every temporary is 0
\* at every pixel and every written destination component is 0.
C7_ZeroInput ==
    AllZero(src) =>
        /\ \A s \in Steps : AllZero(tmp[s])
        /\ \A i \in 1..Len(dest.px) : Written(i) => dest.px[i] = <<0, 0, 0>>

C7_Witness ==
    /\ pc = "done"
    /\ AllZero(src)
    /\ TapTotal(derivKernel, 1) # 0
    /\ \A i \in 1..Len(dest.px) : InRegion(i) => dest.px[i] = <<0, 0, 0>>


\* The eight calls in the order of the function body, from fresh temporaries.
RECURSIVE SeqRun(_, _)
SeqRun(t, i) ==
    IF i > Len(Order) THEN t
    ELSE SeqRun([t EXCEPT ![Order[i]] =
                    StoreInto(@, StepResult(Order[i], t, src, derivKernel, smoothKernel))],
                i + 1)

\* The assembly loop run to its end over the fields t.
Assemble(t, dst) ==
    [dst EXCEPT !.px =
        [i \in 1..Len(dst.px) |->
            IF InRegion(i)
            THEN LET k == ((i - 1) \div dst.w) * src.w + ((i - 1) % dst.w)
                     v == Deref(t, [gxi |-> k, gyi |-> k, gxxi |-> k, gxyi |-> k,
                                    gyyi |-> k, gx3i |-> k, gy3i |-> k])
                 IN  <<Band0(v), Band1(v), Band2(v)>>
            ELSE dst.px[i]]]

\* C8: when the eight calls are taken in any order that lets each call run
\* only after the calls whose results it reads, the temporaries at the start
\* of the assembly loop and the destination at the end are those of the
\* sequential order of the function body.
C8_OrderIndependent ==
    /\ ((pc = "outer" /\ y = 0) \/ pc = "done") =>
          tmp = SeqRun(AllocTmp(src.w, src.h), 1)
    /\ pc = "done" =>
          dest = Assemble(SeqRun(AllocTmp(src.w, src.h), 1),
                          DestImage(src.w, src.h, bands))

C8_Witness ==
    /\ pc = "done"
    /\ reordered
    /\ ~AllZero(tmp.gxx)
    /\ ~AllZero(tmp.gy3)
    /\ dest.px[1] # <<0, 0, 0>>

\* C9: a cascade call runs only when every temporary it reads has been
\* completed, a completed temporary never changes again, and a destination
\* component is written only after all eight calls have returned.
C9_ComputedBeforeRead ==
    [][ /\ \A s \in done' \ done : Reads(s) \subseteq done
        /\ \A s \in done : s \in done' /\ tmp'[s] = tmp[s]
        /\ (writes' # writes \/ dest' # dest) => done = Steps ]_vars

C9_Witness ==
    /\ pc = "inner"
    /\ done = Steps
    /\ Written(1)
    /\ ~AllZero(tmp.gx)
    /\ ~AllZero(tmp.gy3)

\* C10: while the cascade has not completed the destination is as it was
\* before the call; a failing convolution ends the call there, with nothing
\* further executed; a call that returns has written every band of every
\* pixel of the region.
C10_FailureAtomic ==
    /\ done # Steps => Untouched
    /\ pc = "failed" => (Untouched /\ ~ENABLED Next)
    /\ pc = "done" =>
          \A i \in 1..Len(dest.px) :
             InRegion(i) => \A b \in 1..3 : writes[i][b] > 0

\* the second convolution fails after the first has filled gx
C10_Witness ==
    /\ pc = "failed"
    /\ done = {"gx"}
    /\ ~AllZero(tmp.gx)

====
